---------------------------- MODULE Spec2Model ----------------------------
(***************************************************************************)
(* A model of the OFX test client (testofx.py): the in-memory response     *)
(* cache of OFXTestClient.call_url_cached, the request dispatcher          *)
(* send_req, the payload renderers of both header generations, and the     *)
(* header parser OFXFile.                                                  *)
(*                                                                         *)
(* Text the program inspects character by character (versions, rendered    *)
(* documents, header lines) is a sequence of one-character strings.        *)
(* Opaque tokens (URLs, HTTP methods, request names, content types) are    *)
(* plain strings.                                                          *)
(***************************************************************************)
EXTENDS Integers, Sequences, FiniteSets, TLC

(***************************************************************************)
(* Bounds of the model.                                                    *)
(***************************************************************************)
MaxVersionLen == 2
MaxCalls == 2
MaxFiles == 2
MaxFrags == 3

(***************************************************************************)
(* Python str operations used by the program.                              *)
(***************************************************************************)
Min(S) == CHOOSE x \in S : \A y \in S : x <= y

\* s.startswith(prefix)
StartsWith(s, prefix) ==
    /\ Len(prefix) <= Len(s)
    /\ SubSeq(s, 1, Len(prefix)) = prefix

\* s.endswith(suffix)
EndsWith(s, suffix) ==
    /\ Len(suffix) <= Len(s)
    /\ SubSeq(s, Len(s) - Len(suffix) + 1, Len(s)) = suffix

\* s matches pat at index i
MatchesAt(s, i, pat) ==
    /\ i + Len(pat) - 1 <= Len(s)
    /\ \A k \in 1..Len(pat) : s[i + k - 1] = pat[k]

\* s.find(pat): the lowest index (from 0) where pat occurs, -1 when none
Find(s, pat) ==
    LET hits == {i \in 1..(Len(s) + 1) : MatchesAt(s, i, pat)}
    IN  IF hits = {} THEN -1 ELSE Min(hits) - 1

\* The k-th smallest element of the set of integers S.
Nth(S, k) == CHOOSE j \in S : Cardinality({x \in S : x <= j}) = k

\* s.replace('\r\n', '\n'): one left-to-right pass over non-overlapping pairs
ReplaceCRLF(s) ==
    LET cr == {i \in 1..(Len(s) - 1) : s[i] = "\r" /\ s[i + 1] = "\n"}
        keep == (1..Len(s)) \ cr
        n == Cardinality(keep)
    IN  [k \in 1..n |->
            LET j == CHOOSE j \in k..(k + Cardinality(cr)) :
                        /\ j \in keep
                        /\ j - Cardinality({x \in cr : x < j}) = k
            IN  s[j]]

\* s.splitlines(): lines end at "\n", "\r" or "\r\n"; no final empty line
SplitLines(s) ==
    LET n == Len(s)
        \* index of the last character of each line terminator
        ends == {i \in 1..n :
                    \/ s[i] = "\n"
                    \/ s[i] = "\r" /\ ~(i < n /\ s[i + 1] = "\n")}
        m == Cardinality(ends)
        last == IF m = 0 THEN 0 ELSE Nth(ends, m)
        first(k) == IF k = 1 THEN 1 ELSE Nth(ends, k - 1) + 1
        stop(k) == LET e == Nth(ends, k)
                   IN  IF s[e] = "\n" /\ e > 1 /\ s[e - 1] = "\r" /\ e - 1 >= first(k)
                       THEN e - 2 ELSE e - 1
        body == [k \in 1..m |-> SubSeq(s, first(k), stop(k))]
    IN  IF last < n THEN Append(body, SubSeq(s, last + 1, n)) ELSE body

\* s.split(sep) for a one-character separator
Split(s, sep) ==
    LET at == {i \in 1..Len(s) : s[i] = sep}
        m == Cardinality(at)
        first(k) == IF k = 1 THEN 1 ELSE Nth(at, k - 1) + 1
        stop(k) == IF k = m + 1 THEN Len(s) ELSE Nth(at, k) - 1
    IN  [k \in 1..(m + 1) |-> SubSeq(s, first(k), stop(k))]

\* d[k] = v on a Python dict, modelled as a function on its keys
DictSet(d, k, v) == [x \in (DOMAIN d) \cup {k} |-> IF x = k THEN v ELSE d[x]]

EmptyDict == [x \in {} |-> x]

(***************************************************************************)
(* Defines (testofx.py 16-77).                                             *)
(***************************************************************************)
USER_AGENT == "InetClntApp/3.0"
CONTENT_TYPE == "application/x-ofx"

HDR_OFXHEADER == <<"O","F","X","H","E","A","D","E","R">>
HDR_VERSION == <<"V","E","R","S","I","O","N">>
HDR_SECURITY == <<"S","E","C","U","R","I","T","Y">>
HDR_OLDFILEUID == <<"O","L","D","F","I","L","E","U","I","D">>
HDR_NEWFILEUID == <<"N","E","W","F","I","L","E","U","I","D">>

HDR_FIELDS_V2 ==
    <<HDR_OFXHEADER, HDR_VERSION, HDR_SECURITY, HDR_OLDFILEUID, HDR_NEWFILEUID>>

OFX_HEADER_100(version) ==
       <<"O","F","X","H","E","A","D","E","R",":","1","0","0","\n">>
    \o <<"D","A","T","A",":","O","F","X","S","G","M","L","\n">>
    \o <<"V","E","R","S","I","O","N",":">> \o version \o <<"\n">>
    \o <<"S","E","C","U","R","I","T","Y",":","N","O","N","E","\n">>
    \o <<"E","N","C","O","D","I","N","G",":","U","S","A","S","C","I","I","\n">>
    \o <<"C","H","A","R","S","E","T",":","1","2","5","2","\n">>
    \o <<"C","O","M","P","R","E","S","S","I","O","N",":","N","O","N","E","\n">>
    \o <<"O","L","D","F","I","L","E","U","I","D",":","N","O","N","E","\n">>
    \o <<"N","E","W","F","I","L","E","U","I","D",":","N","O","N","E","\n">>

OFX_HEADER_200(version) ==
       <<"<","?","x","m","l"," ","v","e","r","s","i","o","n","=","\"","1",".","0","\""," ","e","n","c","o","d","i","n","g","=","\"","U","T","F","-","8","\""," ","s","t","a","n","d","a","l","o","n","e","=","\"","n","o","\"","?",">","\n">>
    \o <<"<","?","O","F","X"," ","O","F","X","H","E","A","D","E","R","=","\"","2","0","0","\""," ","V","E","R","S","I","O","N","=","\"">> \o version
    \o <<"\""," ","S","E","C","U","R","I","T","Y","=","\"","N","O","N","E","\""," ","O","L","D","F","I","L","E","U","I","D","=","\"","N","O","N","E","\"","\n">>
    \o <<"N","E","W","F","I","L","E","U","I","D","=","\"","N","O","N","E","\"","?",">","\n">>

REQ_NAME_GET_ROOT == "GET /"
REQ_NAME_GET_OFX == "GET OFX Path"
REQ_NAME_POST_OFX == "POST OFX Path"
REQ_NAME_OFX_EMPTY == "OFX Empty"
REQ_NAME_OFX_PROFILE == "OFX PROFILE"
REQ_NAME_OFX_ACCTINFO == "OFX ACCTINFO"

REQ_NAMES ==
    {REQ_NAME_GET_ROOT, REQ_NAME_GET_OFX, REQ_NAME_POST_OFX,
     REQ_NAME_OFX_EMPTY, REQ_NAME_OFX_PROFILE, REQ_NAME_OFX_ACCTINFO}

REQ_METHODS ==
    [r \in REQ_NAMES |->
        IF r \in {REQ_NAME_GET_ROOT, REQ_NAME_GET_OFX} THEN "GET" ELSE "POST"]

(***************************************************************************)
(* The body templates of the payload renderers, each a str.format          *)
(* template of the source with its placeholders as parameters.             *)
(***************************************************************************)
ofx_fi_fmt_sgml(fid, org) ==
       <<"<","F","I",">","\n">>
    \o <<"<","O","R","G",">">> \o org \o <<"\n">>
    \o <<"<","F","I","D",">">> \o fid \o <<"\n">>
    \o <<"<","/","F","I",">","\n">>

ofx_signon_fmt_sgml(dt, fi) ==
       <<"<","S","I","G","N","O","N","M","S","G","S","R","Q","V","1",">","\n">>
    \o <<"<","S","O","N","R","Q",">","\n">>
    \o <<"<","D","T","C","L","I","E","N","T",">">> \o dt \o <<"\n">>
    \o <<"<","U","S","E","R","I","D",">","a","n","o","n","y","m","o","u","s","0","0","0","0","0","0","0","0","0","0","0","0","0","0","0","0","0","0","0","0","0","0","0","\n">>
    \o <<"<","U","S","E","R","P","A","S","S",">","a","n","o","n","y","m","o","u","s","0","0","0","0","0","0","0","0","0","0","0","0","0","0","0","0","0","0","0","0","0","0","0","\n">>
    \o <<"<","G","E","N","U","S","E","R","K","E","Y",">","N","\n">>
    \o <<"<","L","A","N","G","U","A","G","E",">","E","N","G","\n">>
    \o fi \o <<"<","A","P","P","I","D",">","Q","W","I","N","\n">>
    \o <<"<","A","P","P","V","E","R",">","2","7","0","0","\n">>
    \o <<"<","/","S","O","N","R","Q",">","\n">>
    \o <<"<","/","S","I","G","N","O","N","M","S","G","S","R","Q","V","1",">">>

ofx_fi_fmt_xml(fid, org) ==
       <<"<","F","I",">","\n">>
    \o <<"<","O","R","G",">">> \o org \o <<"<","/","O","R","G",">","\n">>
    \o <<"<","F","I","D",">">> \o fid \o <<"<","/","F","I","D",">","\n">>
    \o <<"<","/","F","I",">","\n">>

ofx_signon_fmt_xml(dt, fi) ==
       <<"<","S","I","G","N","O","N","M","S","G","S","R","Q","V","1",">","\n">>
    \o <<"<","S","O","N","R","Q",">","\n">>
    \o <<"<","D","T","C","L","I","E","N","T",">">> \o dt \o <<"<","/","D","T","C","L","I","E","N","T",">","\n">>
    \o <<"<","U","S","E","R","I","D",">","a","n","o","n","y","m","o","u","s","0","0","0","0","0","0","0","0","0","0","0","0","0","0","0","0","0","0","0","0","0","0","0","<","/","U","S","E","R","I","D",">","\n">>
    \o <<"<","U","S","E","R","P","A","S","S",">","a","n","o","n","y","m","o","u","s","0","0","0","0","0","0","0","0","0","0","0","0","0","0","0","0","0","0","0","0","0","0","0","<","/","U","S","E","R","P","A","S","S",">","\n">>
    \o <<"<","G","E","N","U","S","E","R","K","E","Y",">","N","<","/","G","E","N","U","S","E","R","K","E","Y",">","\n">>
    \o <<"<","L","A","N","G","U","A","G","E",">","E","N","G","<","/","L","A","N","G","U","A","G","E",">","\n">>
    \o fi \o <<"<","A","P","P","I","D",">","Q","W","I","N","<","/","A","P","P","I","D",">","\n">>
    \o <<"<","A","P","P","V","E","R",">","2","7","0","0","<","/","A","P","P","V","E","R",">","\n">>
    \o <<"<","/","S","O","N","R","Q",">","\n">>
    \o <<"<","/","S","I","G","N","O","N","M","S","G","S","R","Q","V","1",">">>

ofx_body_empty ==
       <<"<","O","F","X",">","\n">>
    \o <<"<","/","O","F","X",">","\n">>

ofx_body_fmt_profile_sgml(signonmsg, uid) ==
       <<"<","O","F","X",">","\n">>
    \o signonmsg \o <<"\n">>
    \o <<"<","P","R","O","F","M","S","G","S","R","Q","V","1",">","\n">>
    \o <<"<","P","R","O","F","T","R","N","R","Q",">","\n">>
    \o <<"<","T","R","N","U","I","D",">">> \o uid \o <<"\n">>
    \o <<"<","P","R","O","F","R","Q",">","\n">>
    \o <<"<","C","L","I","E","N","T","R","O","U","T","I","N","G",">","M","S","G","S","E","T","\n">>
    \o <<"<","D","T","P","R","O","F","U","P",">","1","9","9","0","0","1","0","1","\n">>
    \o <<"<","/","P","R","O","F","R","Q",">","\n">>
    \o <<"<","/","P","R","O","F","T","R","N","R","Q",">","\n">>
    \o <<"<","/","P","R","O","F","M","S","G","S","R","Q","V","1",">","\n">>
    \o <<"<","/","O","F","X",">","\n">>

ofx_body_fmt_profile_xml(signonmsg, uid) ==
       <<"<","O","F","X",">","\n">>
    \o signonmsg \o <<"\n">>
    \o <<"<","P","R","O","F","M","S","G","S","R","Q","V","1",">","\n">>
    \o <<"<","P","R","O","F","T","R","N","R","Q",">","\n">>
    \o <<"<","T","R","N","U","I","D",">">> \o uid \o <<"<","/","T","R","N","U","I","D",">","\n">>
    \o <<"<","P","R","O","F","R","Q",">","\n">>
    \o <<"<","C","L","I","E","N","T","R","O","U","T","I","N","G",">","M","S","G","S","E","T","<","/","C","L","I","E","N","T","R","O","U","T","I","N","G",">","\n">>
    \o <<"<","D","T","P","R","O","F","U","P",">","1","9","9","0","0","1","0","1","<","/","D","T","P","R","O","F","U","P",">","\n">>
    \o <<"<","/","P","R","O","F","R","Q",">","\n">>
    \o <<"<","/","P","R","O","F","T","R","N","R","Q",">","\n">>
    \o <<"<","/","P","R","O","F","M","S","G","S","R","Q","V","1",">","\n">>
    \o <<"<","/","O","F","X",">","\n">>

ofx_body_fmt_acctinfo(signonmsg, uid) ==
       <<"<","O","F","X",">","\n">>
    \o signonmsg \o <<"\n">>
    \o <<"<","S","I","G","N","U","P","M","S","G","S","R","Q","V","1",">","\n">>
    \o <<"<","A","C","C","T","I","N","F","O","T","R","N","R","Q",">","\n">>
    \o <<"<","T","R","N","U","I","D",">">> \o uid \o <<"\n">>
    \o <<"<","A","C","C","T","I","N","F","O","R","Q",">","\n">>
    \o <<"<","D","T","A","C","C","T","U","P",">","1","9","9","0","0","1","0","1","\n">>
    \o <<"<","/","A","C","C","T","I","N","F","O","R","Q",">","\n">>
    \o <<"<","/","A","C","C","T","I","N","F","O","T","R","N","R","Q",">","\n">>
    \o <<"<","/","S","I","G","N","U","P","M","S","G","S","R","Q","V","1",">","\n">>
    \o <<"<","/","O","F","X",">","\n">>

ofx_body_fmt_invstmtrn(signonmsg, uid, broker_id, acct_id) ==
       <<"<","O","F","X",">","\n">>
    \o signonmsg \o <<"\n">>
    \o <<"<","I","N","V","S","T","M","T","M","S","G","S","R","Q","V","1",">","\n">>
    \o <<"<","I","N","V","S","T","M","T","T","R","N","R","Q",">","\n">>
    \o <<"<","T","R","N","U","I","D",">">> \o uid \o <<"\n">>
    \o <<"<","I","N","V","S","T","M","T","R","Q",">","\n">>
    \o <<"<","I","N","V","A","C","C","T","F","R","O","M",">","\n">>
    \o <<"<","B","R","O","K","E","R","I","D",">">> \o broker_id \o <<"\n">>
    \o <<"<","A","C","C","T","I","D",">">> \o acct_id \o <<"\n">>
    \o <<"<","/","I","N","V","A","C","C","T","F","R","O","M",">","\n">>
    \o <<"<","I","N","C","T","R","A","N",">","\n">>
    \o <<"<","I","N","C","L","U","D","E",">","Y","\n">>
    \o <<"<","/","I","N","C","T","R","A","N",">","\n">>
    \o <<"<","I","N","C","O","O",">","Y","\n">>
    \o <<"<","I","N","C","P","O","S",">","\n">>
    \o <<"<","I","N","C","L","U","D","E",">","Y","\n">>
    \o <<"<","/","I","N","C","P","O","S",">","\n">>
    \o <<"<","I","N","C","B","A","L",">","Y","\n">>
    \o <<"<","/","I","N","V","S","T","M","T","R","Q",">","\n">>
    \o <<"<","/","I","N","V","S","T","M","T","T","R","N","R","Q",">","\n">>
    \o <<"<","/","I","N","V","S","T","M","T","M","S","G","S","R","Q","V","1",">","\n">>
    \o <<"<","/","O","F","X",">","\n">>

(***************************************************************************)
(* State.                                                                  *)
(*   clients  the OFXTestClient objects constructed so far, by identity    *)
(*   cache    OFXTestClient.cache, the class-level dict every client       *)
(*            shares: URL -> response or None                              *)
(*   netlog   the HTTP requests issued through requests.get/post, with     *)
(*            how each ended                                               *)
(*   doc      the payload the last renderer call returned                  *)
(*   headers  OFXFile.headers, the class-level dict every OFXFile shares   *)
(*   files    the OFXFile objects whose construction returned              *)
(*   ret      how the last operation ended: its return value or the        *)
(*            exception it raised                                          *)
(***************************************************************************)
VARIABLES clients, cache, netlog, doc, headers, files, ret

vars == <<clients, cache, netlog, doc, headers, files, ret>>

\* An optional value (Python None or a value) is a sequence of length 0 or 1.
None == <<>>
Some(x) == <<x>>

\* The identities of the client objects of a run.
ClientIds == {1, 2}

Urls == {"https://a.example/ofx", "https://b.example/ofx"}

\* Version strings of up to MaxVersionLen characters, the empty one included.
VersionChars == {"0", "1", "2", "3"}

Versions == UNION {[1..n -> VersionChars] : n \in 0..MaxVersionLen}

\* dt_now() and uid() read the clock and the random source: their results
\* are inputs.
Timestamps == {<<"2","0","1","7","0","6","1","6","1","4","1","3","2","7",".","1","2","3","[","-","7",":","M","S","T","]">>}

Uids == {<<"C","1","B","7","C","8","7","0","-","7","C","B","2","-","1","0","0","0","-","B","D","9","1","-","E","1","E","2","3","E","5","6","0","0","2","6">>}

Returned(op, arg, value) ==
    [op |-> op, arg |-> arg, exc |-> "none", msg |-> "", value |-> value]

Raised(op, arg, exc, msg) ==
    [op |-> op, arg |-> arg, exc |-> exc, msg |-> msg, value |-> None]

Init ==
    /\ clients = [c \in ClientIds |-> None]
    /\ cache = EmptyDict
    /\ netlog = <<>>
    /\ doc = None
    /\ headers = EmptyDict
    /\ files = <<>>
    /\ ret = Returned("start", None, None)

(***************************************************************************)
(* OFXServerInstance and OFXTestClient.__init__                            *)
(***************************************************************************)
\* fid and org are optional; a falsy one (None or '') becomes ''.
OFXServerInstance(ofxurl, fid, org) ==
    [ofxurl |-> ofxurl,
     fid |-> IF fid = None \/ fid[1] = <<>> THEN <<>> ELSE fid[1],
     org |-> IF org = None \/ org[1] = <<>> THEN <<>> ELSE org[1]]

\* The outcome of OFXTestClient(wait, use_cache, version): the object, or
\* the exception the constructor raises.
OFXTestClient_init(wait, use_cache, version) ==
    IF Len(version) = 0
    THEN [exc |-> "IndexError", msg |-> "string index out of range",
          obj |-> None]
    ELSE IF version[1] = "1"
    THEN [exc |-> "none", msg |-> "",
          obj |-> Some([wait |-> wait, use_cache |-> use_cache,
                        version |-> version,
                        ofxheader |-> OFX_HEADER_100(version),
                        content_type |-> "text/sgml"])]
    ELSE IF version[1] = "2"
    THEN [exc |-> "none", msg |-> "",
          obj |-> Some([wait |-> wait, use_cache |-> use_cache,
                        version |-> version,
                        ofxheader |-> OFX_HEADER_200(version),
                        content_type |-> "text/xml"])]
    ELSE [exc |-> "ValueError", msg |-> "Unknown OFX version number",
          obj |-> None]

Construct(c, wait, use_cache, version) ==
    /\ clients[c] = None
    /\ LET r == OFXTestClient_init(wait, use_cache, version)
           arg == [client |-> c, version |-> version]
       IN  /\ clients' = [clients EXCEPT ![c] = r.obj]
           /\ ret' = IF r.exc = "none"
                     THEN Returned("OFXTestClient", arg, None)
                     ELSE Raised("OFXTestClient", arg, r.exc, r.msg)
    /\ UNCHANGED <<cache, netlog, doc, headers, files>>

(***************************************************************************)
(* The payload renderers.                                                  *)
(***************************************************************************)
\* self is a client object, si an optional server instance.
get_signonmsg_anonymous_payload(self, si, dt) ==
    LET fi == IF si = None THEN <<>>
              ELSE IF self.content_type = "text/sgml"
                   THEN ofx_fi_fmt_sgml(si[1].fid, si[1].org)
                   ELSE ofx_fi_fmt_xml(si[1].fid, si[1].org)
    IN  IF self.content_type = "text/sgml"
        THEN ofx_signon_fmt_sgml(dt, fi)
        ELSE ofx_signon_fmt_xml(dt, fi)

get_empty_payload(self, si) == <<>>

get_ofx_empty_payload(self, si) ==
    self.ofxheader \o <<"\n">> \o ofx_body_empty

get_profile_payload(self, si, dt, uid) ==
    LET signonmsg == get_signonmsg_anonymous_payload(self, si, dt)
        body == IF self.content_type = "text/sgml"
                THEN ofx_body_fmt_profile_sgml(signonmsg, uid)
                ELSE ofx_body_fmt_profile_xml(signonmsg, uid)
    IN  self.ofxheader \o <<"\n">> \o body

get_acctinfo_payload(self, si, dt, uid) ==
    LET signonmsg == get_signonmsg_anonymous_payload(self, si, dt)
    IN  self.ofxheader \o <<"\n">> \o ofx_body_fmt_acctinfo(signonmsg, uid)

get_invstmtrn_payload(self, si, brokerid, acctid, dt, uid) ==
    LET signonmsg == get_signonmsg_anonymous_payload(self, si, dt)
    IN  self.ofxheader \o <<"\n">>
        \o ofx_body_fmt_invstmtrn(signonmsg, uid, brokerid, acctid)

Rendered(c, kind, text) ==
    /\ doc' = Some([kind |-> kind, client |-> c, text |-> text])
    /\ ret' = Returned(kind, [client |-> c], None)
    /\ UNCHANGED <<clients, cache, netlog, headers, files>>

GetEmptyPayload(c, si) ==
    /\ clients[c] # None
    /\ Rendered(c, "get_empty_payload", get_empty_payload(clients[c][1], si))

GetOfxEmptyPayload(c, si) ==
    /\ clients[c] # None
    /\ Rendered(c, "get_ofx_empty_payload",
                get_ofx_empty_payload(clients[c][1], si))

GetProfilePayload(c, si, dt, uid) ==
    /\ clients[c] # None
    /\ Rendered(c, "get_profile_payload",
                get_profile_payload(clients[c][1], si, dt, uid))

GetAcctinfoPayload(c, si, dt, uid) ==
    /\ clients[c] # None
    /\ Rendered(c, "get_acctinfo_payload",
                get_acctinfo_payload(clients[c][1], si, dt, uid))

GetInvstmtrnPayload(c, si, brokerid, acctid, dt, uid) ==
    /\ clients[c] # None
    /\ Rendered(c, "get_invstmtrn_payload",
                get_invstmtrn_payload(clients[c][1], si, brokerid, acctid,
                                      dt, uid))

(***************************************************************************)
(* OFXTestClient.call_url_cached and send_req                              *)
(***************************************************************************)
\* How requests.get / requests.post can end.
Outcomes == {"Response", "ConnectionError", "ReadTimeout"}

Methods == {"GET", "POST", "PUT"}

\* The request headers call_url_cached builds.
RequestHeaders(method) ==
    IF method = "POST"
    THEN [UserAgent |-> Some(USER_AGENT), ContentType |-> Some(CONTENT_TYPE)]
    ELSE [UserAgent |-> Some(USER_AGENT), ContentType |-> None]

\* call_url_cached with the cache read only by a client built with
\* use_cache = True.
call_url_cached_uncached(self, c, log, url, tlsverify, body, method, outcome) ==
    IF method \notin {"GET", "POST"}
    THEN [exc |-> "ValueError", msg |-> "Method must be 'GET' or 'POST'",
          value |-> None, cache |-> c, netlog |-> log]
    ELSE IF self.use_cache /\ url \in DOMAIN c
    THEN [exc |-> "none", msg |-> "",
          value |-> Some([r |-> c[url], was_cached |-> TRUE]),
          cache |-> c, netlog |-> log]
    ELSE LET request == [url |-> url, method |-> method,
                         headers |-> RequestHeaders(method),
                         verify |-> tlsverify,
                         data |-> IF method = "POST" THEN Some(body) ELSE None,
                         outcome |-> outcome]
             sent == Append(log, request)
             r == Some([rid |-> Len(sent)])
         IN  CASE outcome = "Response" ->
                    [exc |-> "none", msg |-> "",
                     value |-> Some([r |-> r, was_cached |-> FALSE]),
                     cache |-> IF self.use_cache THEN DictSet(c, url, r) ELSE c,
                     netlog |-> sent]
               [] outcome = "ConnectionError" ->
                    [exc |-> "none", msg |-> "",
                     value |-> Some([r |-> None, was_cached |-> FALSE]),
                     cache |-> DictSet(c, url, None),
                     netlog |-> sent]
               [] outcome = "ReadTimeout" ->
                    \* the handler evaluates `wait > 0`: no local or global
                    \* of that name exists
                    [exc |-> "NameError", msg |-> "name 'wait' is not defined",
                     value |-> None, cache |-> c, netlog |-> sent]

\* One call of self.call_url_cached(url, tlsverify, body, method) on the
\* cache c and the request log log, the HTTP request (if one is issued)
\* ending as outcome.  The result is the exception raised or the returned
\* pair (r, was_cached), and the cache and the log the call leaves.
call_url_cached(self, c, log, url, tlsverify, body, method, outcome) ==
    IF method \notin {"GET", "POST"}
    THEN [exc |-> "ValueError", msg |-> "Method must be 'GET' or 'POST'",
          value |-> None, cache |-> c, netlog |-> log]
    ELSE IF url \in DOMAIN c
    THEN [exc |-> "none", msg |-> "",
          value |-> Some([r |-> c[url], was_cached |-> TRUE]),
          cache |-> c, netlog |-> log]
    ELSE LET request == [url |-> url, method |-> method,
                         headers |-> RequestHeaders(method),
                         verify |-> tlsverify,
                         data |-> IF method = "POST" THEN Some(body) ELSE None,
                         outcome |-> outcome]
             sent == Append(log, request)
             r == Some([rid |-> Len(sent)])
         IN  CASE outcome = "Response" ->
                    [exc |-> "none", msg |-> "",
                     value |-> Some([r |-> r, was_cached |-> FALSE]),
                     cache |-> IF self.use_cache THEN DictSet(c, url, r) ELSE c,
                     netlog |-> sent]
               [] outcome = "ConnectionError" ->
                    [exc |-> "none", msg |-> "",
                     value |-> Some([r |-> None, was_cached |-> FALSE]),
                     cache |-> DictSet(c, url, None),
                     netlog |-> sent]
               [] outcome = "ReadTimeout" ->
                    \* the handler evaluates `wait > 0`: no local or global
                    \* of that name exists
                    [exc |-> "NameError", msg |-> "name 'wait' is not defined",
                     value |-> None, cache |-> c, netlog |-> sent]

\* A call that ended as res: at most MaxCalls requests are issued in a run.
Called(op, arg, res) ==
    /\ Len(res.netlog) <= MaxCalls
    /\ cache' = res.cache
    /\ netlog' = res.netlog
    /\ ret' = IF res.exc = "none"
              THEN Returned(op, arg, res.value[1])
              ELSE Raised(op, arg, res.exc, res.msg)
    /\ UNCHANGED <<clients, doc, headers, files>>

CallUrlCached(c, url, tlsverify, body, method, outcome) ==
    /\ clients[c] # None
    /\ Called("call_url_cached",
              [client |-> c, url |-> url, method |-> method],
              call_url_cached(clients[c][1], cache, netlog, url, tlsverify,
                              body, method, outcome))

\* send_req's return value when its call_url_cached ended as res: res alone,
\* without was_cached.
ProfileSent(res) ==
    [exc |-> res.exc, msg |-> res.msg,
     value |-> IF res.exc = "none" THEN Some(res.value[1].r) ELSE None,
     cache |-> res.cache, netlog |-> res.netlog]

\* One call of self.send_req(req_name, si).
send_req(self, c, log, req_name, si, dt, uid, outcome) ==
    IF req_name = REQ_NAME_OFX_PROFILE
    THEN ProfileSent(call_url_cached(self, c, log, si.ofxurl, TRUE,
                        get_profile_payload(self, Some(si), dt, uid),
                        REQ_METHODS[req_name], outcome))
    ELSE [exc |-> "ValueError", msg |-> "Unknown request name",
          value |-> None, cache |-> c, netlog |-> log]

RequestNames == REQ_NAMES \cup {"OFX BOGUS"}

SendReq(c, req_name, si, dt, uid, outcome) ==
    /\ clients[c] # None
    /\ Called("send_req",
              [client |-> c, url |-> si.ofxurl, req_name |-> req_name],
              send_req(clients[c][1], cache, netlog, req_name, si, dt, uid,
                       outcome))

(***************************************************************************)
(* is_ofx_response and OFXFile                                             *)
(***************************************************************************)
is_ofx_response(resp_body) ==
    LET ret0 == FALSE
        ret1 == IF StartsWith(resp_body, <<"O","F","X","H","E","A","D","E","R">>) THEN TRUE ELSE ret0
        ret2 == IF Find(resp_body, <<"<","?","O","F","X"," ","O","F","X","H","E","A","D","E","R">>) # -1 THEN TRUE ELSE ret1
    IN  ret2

\* _convert_newlines dropping every carriage return, not only those of a
\* CRLF pair.
convert_newlines_all_cr(file_str) ==
    LET keep == {i \in 1..Len(file_str) : file_str[i] # "\r"}
    IN  [k \in 1..Cardinality(keep) |-> file_str[Nth(keep, k)]]

\* OFXFile._convert_newlines
convert_newlines(file_str) == ReplaceCRLF(file_str)

\* The character classes \d and \w of the header pattern.
Digits == {"0", "1", "2", "3", "4", "5", "6", "7", "8", "9"}

WordChars ==
    Digits \cup {"_"} \cup
    {"A", "B", "C", "D", "E", "F", "G", "H", "I", "J", "K", "L", "M",
     "N", "O", "P", "Q", "R", "S", "T", "U", "V", "W", "X", "Y", "Z",
     "a", "b", "c", "d", "e", "f", "g", "h", "i", "j", "k", "l", "m",
     "n", "o", "p", "q", "r", "s", "t", "u", "v", "w", "x", "y", "z"}

\* The last index of the longest run of class characters of s that starts
\* at index i (i - 1 when s[i] is not of the class).
RunEnd(s, i, class) ==
    Min({j \in i..(Len(s) + 1) : j > Len(s) \/ s[j] \notin class}) - 1

\* rpat: five groups, each a literal followed by a named greedy run of a
\* character class, and the closing literal.
RPAT ==
    <<[lit |-> <<"<","?","O","F","X"," ","O","F","X","H","E","A","D","E","R","=","\"">>, class |-> Digits, name |-> HDR_OFXHEADER],
      [lit |-> <<"\""," ","V","E","R","S","I","O","N","=","\"">>, class |-> Digits, name |-> HDR_VERSION],
      [lit |-> <<"\""," ","S","E","C","U","R","I","T","Y","=","\"">>, class |-> WordChars, name |-> HDR_SECURITY],
      [lit |-> <<"\""," ","O","L","D","F","I","L","E","U","I","D","=","\"">>, class |-> WordChars, name |-> HDR_OLDFILEUID],
      [lit |-> <<"\""," ","N","E","W","F","I","L","E","U","I","D","=","\"">>, class |-> WordChars, name |-> HDR_NEWFILEUID]>>

RPAT_END == <<"\"","?",">">>

\* Group g matched at index i of s: the index of its run's last character,
\* or 0.  The run is followed by a double quote, which is of neither class,
\* so only the longest run can match.
GroupEnd(s, i, g) ==
    IF /\ MatchesAt(s, i, g.lit)
       /\ RunEnd(s, i + Len(g.lit), g.class) >= i + Len(g.lit)
    THEN RunEnd(s, i + Len(g.lit), g.class)
    ELSE 0

\* rpat matched from its k-th group on at index i of s, the groups matched
\* so far being in groups: all the named groups, or None.
RECURSIVE MatchFrom(_, _, _, _)
RECURSIVE MatchGroup(_, _, _, _, _)
MatchFrom(s, i, k, groups) ==
    IF k > Len(RPAT)
    THEN IF MatchesAt(s, i, RPAT_END) THEN Some(groups) ELSE None
    ELSE MatchGroup(s, i, k, groups, GroupEnd(s, i, RPAT[k]))

MatchGroup(s, i, k, groups, e) ==
    IF e = 0 THEN None
    ELSE MatchFrom(s, e + 1, k + 1,
                   DictSet(groups, RPAT[k].name,
                           SubSeq(s, i + Len(RPAT[k].lit), e)))

\* re.search(rpat, s): the groups of the leftmost match, or None
FirstMatch(s, hits) ==
    IF hits = {} THEN None ELSE MatchFrom(s, Min(hits), 1, EmptyDict)

SearchV2(s) ==
    FirstMatch(s, {i \in 1..Len(s) : MatchFrom(s, i, 1, EmptyDict) # None})

\* The unpacking [k,v] = line.split(':') of one header line into the dict h,
\* kv being the split line.
RECURSIVE ScanV1(_, _, _)
RECURSIVE StoreV1(_, _, _, _)
StoreV1(lines, i, h, kv) ==
    IF Len(kv) > 2
    THEN [exc |-> "ValueError", msg |-> "too many values to unpack",
          headers |-> h]
    ELSE IF Len(kv) < 2
    THEN [exc |-> "ValueError", msg |-> "not enough values to unpack",
          headers |-> h]
    ELSE ScanV1(lines, i + 1, DictSet(h, kv[1], kv[2]))

\* The Gen1 line loop from line i on, writing into the dict h: the dict it
\* leaves and the exception the unpacking of a line raises, if any.
ScanV1(lines, i, h) ==
    IF i > Len(lines)
    THEN [exc |-> "none", msg |-> "", headers |-> h]
    ELSE IF \/ lines[i] = <<>>
            \/ StartsWith(lines[i], <<"<","O","F","X",">">>)
            \/ Len(lines[i]) > 13
    THEN [exc |-> "none", msg |-> "", headers |-> h]
    ELSE StoreV1(lines, i, h, Split(lines[i], ":"))

\* The Gen2 loop `for field in HDR_FIELDS_V2` from field k on.
RECURSIVE StoreV2(_, _, _)
StoreV2(groups, k, h) ==
    IF k > Len(HDR_FIELDS_V2) THEN h
    ELSE StoreV2(groups, k + 1,
                 DictSet(h, HDR_FIELDS_V2[k], groups[HDR_FIELDS_V2[k]]))

\* self.version = self.headers[HDR_VERSION], h being the dict the scan left
ReadVersion(h) ==
    IF HDR_VERSION \in DOMAIN h
    THEN [exc |-> "none", msg |-> "", headers |-> h,
          version |-> Some(h[HDR_VERSION])]
    ELSE [exc |-> "ValueError", msg |-> "Parse Error: No version",
          headers |-> h, version |-> None]

\* The Gen1 branch after its line loop ended as scan.
AfterScanV1(scan) ==
    IF scan.exc # "none"
    THEN [exc |-> scan.exc, msg |-> scan.msg, headers |-> scan.headers,
          version |-> None]
    ELSE ReadVersion(scan.headers)

\* The Gen2 branch after re.search returned match.
AfterSearchV2(match, h) ==
    IF match = None
    THEN [exc |-> "ValueError",
          msg |-> "Parse Error: Unable to parse V2 header with regex",
          headers |-> h, version |-> None]
    ELSE ReadVersion(StoreV2(match[1], 1, h))

\* OFXFile._parse_header on the normalized text, writing into the dict h
\* (self.headers): the dict it leaves, and the version it sets or the
\* exception it raises.
parse_header(file_str, h) ==
    IF StartsWith(file_str, <<"O","F","X","H","E","A","D","E","R">>)
    THEN AfterScanV1(ScanV1(SplitLines(file_str), 1, h))
    ELSE IF Find(file_str, <<"<","?","O","F","X"," ","O","F","X","H","E","A","D","E","R">>) # -1
    THEN AfterSearchV2(SearchV2(file_str), h)
    ELSE [exc |-> "ValueError", msg |-> "Parse Error: Unable to parse header",
          headers |-> h, version |-> None]

\* The object OFXFile.__init__ leaves: its own attributes _file_str and
\* version, when _parse_header ended as res.
Instance(text, res) ==
    [exc |-> res.exc, msg |-> res.msg, headers |-> res.headers,
     obj |-> IF res.exc = "none"
             THEN Some([file_str |-> text, version |-> res.version[1]])
             ELSE None]

Normalized(text, h) == Instance(text, parse_header(text, h))

\* OFXFile(file_str) with the class dict OFXFile.headers holding h: the
\* object constructed, or the exception, and the class dict afterwards.
OFXFile_init(file_str, h) == Normalized(convert_newlines(file_str), h)

\* f.headers of a constructed OFXFile: no instance has a dict of its own,
\* the attribute lookup finds the class dict.
FileHeaders(i) == headers

Constructed(res, arg) ==
    /\ headers' = res.headers
    /\ files' = IF res.exc = "none" THEN Append(files, res.obj[1]) ELSE files
    /\ ret' = IF res.exc = "none"
              THEN Returned("OFXFile", arg, None)
              ELSE Raised("OFXFile", arg, res.exc, res.msg)

NewOFXFile(file_str, from) ==
    /\ Len(files) < MaxFiles
    /\ Constructed(OFXFile_init(file_str, headers),
                   [text |-> file_str, from |-> from])
    /\ UNCHANGED <<clients, cache, netlog, doc>>

\* OFXFile on a text the caller supplies.
ParseText(text) == NewOFXFile(text, "text")

\* OFXFile on the document the last renderer call returned.
ParseDoc ==
    /\ doc # None
    /\ NewOFXFile(doc[1].text, "doc")

\* is_ofx_response on the document held.
Classify ==
    /\ doc # None
    /\ ret' = Returned("is_ofx_response", [text |-> doc[1].text],
                       is_ofx_response(doc[1].text))
    /\ UNCHANGED <<clients, cache, netlog, doc, headers, files>>

(***************************************************************************)
(* Specifications.                                                         *)
(***************************************************************************)
\* --- The client: construction, the renderers, and the parser applied to
\* --- what they render.
OptionalFids == {None, Some(<<"1","0","0","1">>)}

RenderInstances ==
    {None} \cup {Some(OFXServerInstance("https://a.example/ofx", f, f)) :
                    f \in OptionalFids}

NextClient ==
    \/ \E version \in Versions : Construct(1, 0, FALSE, version)
    \/ \E si \in RenderInstances : GetEmptyPayload(1, si)
    \/ \E si \in RenderInstances : GetOfxEmptyPayload(1, si)
    \/ \E si \in RenderInstances, dt \in Timestamps, uid \in Uids :
            GetProfilePayload(1, si, dt, uid)
    \/ \E si \in RenderInstances, dt \in Timestamps, uid \in Uids :
            GetAcctinfoPayload(1, si, dt, uid)
    \/ \E si \in RenderInstances, dt \in Timestamps, uid \in Uids :
            GetInvstmtrnPayload(1, si, <<"B","R","K">>, <<"4","2">>, dt, uid)
    \/ ParseDoc

SpecClient == Init /\ [][NextClient]_vars

\* --- The transport: two clients that share the class-level cache, the
\* --- first built with use_cache = False (the default) and wait = 0, the
\* --- second with use_cache = True and wait = 1, both with the default
\* --- version.
DefaultVersion == <<"1","0","2">>

InitTransport ==
    /\ clients = [c \in ClientIds |->
                    OFXTestClient_init(c - 1, c > 1, DefaultVersion).obj]
    /\ cache = EmptyDict
    /\ netlog = <<>>
    /\ doc = None
    /\ headers = EmptyDict
    /\ files = <<>>
    /\ ret = Returned("start", None, None)

NextTransport ==
    \E c \in ClientIds, url \in Urls, method \in Methods,
       outcome \in Outcomes :
        CallUrlCached(c, url, TRUE, <<>>, method, outcome)

SpecTransport == InitTransport /\ [][NextTransport]_vars

\* --- The same clients sending the pre-defined requests as well.
TransportInstances == {OFXServerInstance(u, None, None) : u \in Urls}

NextRequests ==
    \/ NextTransport
    \/ \E c \in ClientIds, req_name \in RequestNames,
          si \in TransportInstances, dt \in Timestamps, uid \in Uids,
          outcome \in Outcomes :
            SendReq(c, req_name, si, dt, uid, outcome)

SpecRequests == InitTransport /\ [][NextRequests]_vars

\* --- The parser on a sequence of files, each made of up to MaxLines of
\* --- the pieces below.
MaxLines == 2

HeaderPieces ==
    {<<"O","F","X","H","E","A","D","E","R",":","1","0","0","\n">>, <<"O","F","X","H","E","A","D","E","R",":","1","0","0","\r","\n">>, <<"V","E","R","S","I","O","N",":","1","0","2","\n">>,
     <<"D","A","T","A",":","a",":","b","\n">>, <<"\n">>, <<"<","O","F","X",">","\n">>,
     <<"<","?","O","F","X"," ","O","F","X","H","E","A","D","E","R","=","\"","2","0","0","\""," ","V","E","R","S","I","O","N","=","\"","2","0","3","\""," ","S","E","C","U","R","I","T","Y","=","\"","N","O","N","E","\""," ","O","L","D","F","I","L","E","U","I","D","=","\"","N","O","N","E","\""," ","N","E","W","F","I","L","E","U","I","D","=","\"","N","O","N","E","\"","?",">","\n">>}

RECURSIVE Concat(_)
Concat(ss) == IF ss = <<>> THEN <<>> ELSE Head(ss) \o Concat(Tail(ss))

Texts(pieces, n) == {Concat(ss) : ss \in UNION {[1..k -> pieces] : k \in 0..n}}

NextParse == \E text \in Texts(HeaderPieces, MaxLines) : ParseText(text)

SpecParse == Init /\ [][NextParse]_vars

\* --- Header detection on one text, made of up to MaxFrags of the pieces
\* --- below, that a caller both classifies and parses.
DetectPieces ==
    {<<"O","F","X","H","E","A","D","E","R">>, <<"O","F","X","H","E","A","D","E">>, <<"R">>, <<":","1","0","0">>, <<"<","?","O","F","X"," ">>, <<"<","?","O","F","X">>, <<" ">>,
     <<"\r">>, <<"\n">>, <<"V","E","R","S","I","O","N",":","1","0","2">>}

InitDetect ==
    /\ clients = [c \in ClientIds |-> None]
    /\ cache = EmptyDict
    /\ netlog = <<>>
    /\ doc \in {Some([kind |-> "text", client |-> 0, text |-> t]) :
                    t \in Texts(DetectPieces, MaxFrags)}
    /\ headers = EmptyDict
    /\ files = <<>>
    /\ ret = Returned("start", None, None)

NextDetect == Classify \/ ParseDoc

SpecDetect == InitDetect /\ [][NextDetect]_vars

(***************************************************************************)
(* Properties.                                                             *)
(***************************************************************************)
\* The step issued an HTTP request.
Requested == Len(netlog') > Len(netlog)

\* The request the step issued.
NewRequest == netlog'[Len(netlog')]

\* C1 as stated: once a request for a URL has ended in a result (a response
\* or a connection failure), no later request is issued for that URL.
C1_NoSecondRequest ==
    \A i, j \in 1..Len(netlog) :
        i < j /\ netlog[i].url = netlog[j].url
            => netlog[i].outcome \notin {"Response", "ConnectionError"}

\* C1 amended: an outcome is recorded in the cache when a client built with
\* use_cache = True gets a response and when any client's request ends in a
\* connection failure.  Once a URL has a recorded outcome it keeps it, no
\* request is issued for that URL again, and every call_url_cached for it
\* with method GET or POST returns the recorded outcome with
\* was_cached = True.  A response to a client built with use_cache = False
\* is not recorded.
C1_RecordedOutcomeIsFinal ==
    [][/\ \A u \in DOMAIN cache :
            /\ u \in DOMAIN cache' /\ cache'[u] = cache[u]
            /\ Requested => NewRequest.url # u
            /\ ret'.op = "call_url_cached" /\ ret'.arg.url = u
                    /\ ret'.arg.method \in {"GET", "POST"}
                => /\ ret'.exc = "none"
                   /\ ret'.value = [r |-> cache[u], was_cached |-> TRUE]
       /\ Requested /\ NewRequest.outcome = "ConnectionError"
            => /\ NewRequest.url \in DOMAIN cache'
               /\ cache'[NewRequest.url] = None
       /\ Requested /\ NewRequest.outcome = "Response"
                /\ clients[ret'.arg.client][1].use_cache
            => /\ NewRequest.url \in DOMAIN cache'
               /\ cache'[NewRequest.url] = Some([rid |-> Len(netlog')])
       /\ Requested /\ NewRequest.outcome = "Response"
                /\ ~clients[ret'.arg.client][1].use_cache
            => cache' = cache
      ]_vars

\* C1 witness: a call for a URL whose response was recorded returned that
\* response from the cache.
C1_CachedReturn ==
    /\ ret.op = "call_url_cached"
    /\ ret.exc = "none"
    /\ ret.value.was_cached
    /\ ret.value.r # None
    /\ ret.arg.url \in DOMAIN cache
    /\ \E i \in 1..Len(netlog) :
            /\ netlog[i].url = ret.arg.url
            /\ netlog[i].outcome = "Response"

\* C5 as stated: a call_url_cached whose request ends in a read timeout
\* returns (None, False) and records nothing in the cache.
C5_TimeoutReturnsNone ==
    [][Requested /\ NewRequest.outcome = "ReadTimeout"
            /\ ret'.op = "call_url_cached"
        => /\ ret'.exc = "none"
           /\ ret'.value = [r |-> None, was_cached |-> FALSE]
           /\ cache' = cache]_vars

\* C7 as stated: send_req raises 'Unknown request name' exactly when the
\* name is none of the six of REQ_NAMES; when it raises it, nothing is sent;
\* a request it sends uses the method REQ_METHODS binds to the name.
C7_UnknownRequestOnly ==
    [][ret'.op = "send_req"
        => /\ (ret'.exc = "ValueError" /\ ret'.msg = "Unknown request name")
                <=> ret'.arg.req_name \notin REQ_NAMES
           /\ ret'.msg = "Unknown request name"
                => ~Requested /\ cache' = cache
           /\ Requested
                => NewRequest.method = REQ_METHODS[ret'.arg.req_name]]_vars

\* The version string starts with "1" or "2".
SupportedVersion(version) == Len(version) > 0 /\ version[1] \in {"1", "2"}

\* C6 as stated: constructing a client with a version that does not start
\* with "1" or "2" (the empty one included) raises ValueError 'Unknown OFX
\* version number' and yields no client; with any other version it yields
\* one.
C6_UnknownVersionRejected ==
    ret.op = "OFXTestClient"
        => IF SupportedVersion(ret.arg.version)
           THEN ret.exc = "none" /\ clients[ret.arg.client] # None
           ELSE /\ ret.exc = "ValueError"
                /\ ret.msg = "Unknown OFX version number"
                /\ clients[ret.arg.client] = None

\* The lines of a document that carry a value: <TAG>value..., neither a
\* closing tag nor a processing instruction.
IsValueLine(line) ==
    /\ StartsWith(line, <<"<">>)
    /\ ~StartsWith(line, <<"<","/">>)
    /\ ~StartsWith(line, <<"<","?">>)
    /\ Find(line, <<">">>) # -1
    /\ Find(line, <<">">>) + 1 < Len(line)

\* The line is <TAG>value</TAG>.
IsClosed(line) ==
    EndsWith(line, <<"<","/">> \o SubSeq(line, 2, Find(line, <<">">>) + 1))

\* The line is <TAG>value with no closing tag.
IsOpen(line) == Find(line, <<"<","/">>) = -1

ValueLines(text) ==
    {i \in 1..Len(SplitLines(text)) : IsValueLine(SplitLines(text)[i])}

\* C8 as stated: in a profile, account-info or investment-statement request
\* (signon included) of a Gen2 client every value-carrying element is
\* <TAG>value</TAG>, and of a Gen1 client <TAG>value with no closing tag.
C8_TagStyleByGeneration ==
    doc # None /\ doc[1].kind \in {"get_profile_payload",
                                   "get_acctinfo_payload",
                                   "get_invstmtrn_payload"}
        => \A i \in ValueLines(doc[1].text) :
                IF clients[doc[1].client][1].version[1] = "2"
                THEN IsClosed(SplitLines(doc[1].text)[i])
                ELSE IsOpen(SplitLines(doc[1].text)[i])

\* C2 as stated: parsing the profile request a client rendered succeeds and
\* leaves VERSION equal to the client's version.
C2_ProfileRoundTrip ==
    ret.op = "OFXFile" /\ ret.arg.from = "doc"
            /\ doc[1].kind = "get_profile_payload"
        => /\ ret.exc = "none"
           /\ HDR_VERSION \in DOMAIN FileHeaders(Len(files))
           /\ FileHeaders(Len(files))[HDR_VERSION]
                = clients[doc[1].client][1].version

\* What OFXFile makes of a text on its own, the class dict being empty.
Own(text) == OFXFile_init(text, EmptyDict)

\* The text is detected as Gen1 or Gen2 and its own header has no VERSION.
LacksVersion(text) ==
    Own(text).exc = "ValueError" /\ Own(text).msg = "Parse Error: No version"

\* C3 as stated: whatever was parsed before, parsing a text whose own header
\* has no VERSION raises 'Parse Error: No version', and no OFXFile exists
\* whose own header has no VERSION.
C3_MissingVersionFails ==
    /\ ret.op = "OFXFile" /\ LacksVersion(ret.arg.text)
        => ret.exc = "ValueError" /\ ret.msg = "Parse Error: No version"
    /\ \A i \in 1..Len(files) : ~LacksVersion(files[i].file_str)

\* C4 as stated: an OFXFile is read-only once constructed and shares no
\* state: whatever is constructed (or fails to be) after it, its header
\* mapping stays the one extracted from its own text, holding no field of
\* another text.
C4_FilesShareNothing ==
    \A i \in 1..Len(files) :
        FileHeaders(i) = Own(files[i].file_str).headers

\* The lines of a Gen1 text before its header region ends.
RECURSIVE HeaderRegion(_, _)
HeaderRegion(lines, i) ==
    IF i > Len(lines) THEN i - 1
    ELSE IF \/ lines[i] = <<>>
            \/ StartsWith(lines[i], <<"<","O","F","X",">">>)
            \/ Len(lines[i]) > 13
    THEN i - 1
    ELSE HeaderRegion(lines, i + 1)

HeaderLines(text) ==
    SubSeq(SplitLines(ReplaceCRLF(text)), 1,
           HeaderRegion(SplitLines(ReplaceCRLF(text)), 1))

FieldOf(line) == SubSeq(line, 1, Find(line, <<":">>))

ValueOf(line) == SubSeq(line, Find(line, <<":">>) + 2, Len(line))

\* C10 as stated: parsing a Gen1 text splits every line of its header
\* region on the line's first colon and stores the pair, also when the
\* value has a colon of its own; no such line makes the parse fail.
C10_SplitOnFirstColon ==
    ret.op = "OFXFile" /\ StartsWith(ReplaceCRLF(ret.arg.text), <<"O","F","X","H","E","A","D","E","R">>)
        => \A i \in 1..Len(HeaderLines(ret.arg.text)) :
            Find(HeaderLines(ret.arg.text)[i], <<":">>) # -1
                => /\ ret.msg # "too many values to unpack"
                   /\ FieldOf(HeaderLines(ret.arg.text)[i]) \in DOMAIN headers
                   /\ (\A j \in (i + 1)..Len(HeaderLines(ret.arg.text)) :
                         FieldOf(HeaderLines(ret.arg.text)[j])
                            # FieldOf(HeaderLines(ret.arg.text)[i]))
                        => headers[FieldOf(HeaderLines(ret.arg.text)[i])]
                            = ValueOf(HeaderLines(ret.arg.text)[i])

\* C9: is_ofx_response is true exactly of the texts that start with
\* OFXHEADER or contain <?OFX OFXHEADER, and OFXFile raises 'Unable to parse
\* header' exactly on the texts is_ofx_response is false of, the CRLF
\* conversion OFXFile does first notwithstanding.
C9_DetectionAgrees ==
    /\ ret.op = "is_ofx_response"
        => ret.value
            <=> \/ StartsWith(ret.arg.text, <<"O","F","X","H","E","A","D","E","R">>)
                \/ \E i \in 1..Len(ret.arg.text) :
                        MatchesAt(ret.arg.text, i, <<"<","?","O","F","X"," ","O","F","X","H","E","A","D","E","R">>)
    /\ ret.op = "OFXFile"
        => (ret.exc = "ValueError"
                /\ ret.msg = "Parse Error: Unable to parse header")
            <=> ~is_ofx_response(ret.arg.text)

\* C9 witness: OFXFile raised 'Unable to parse header' on a text that holds
\* OFXHEADER past its start, that its CRLF conversion changed, and that
\* is_ofx_response is false of.
C9_UnrecognizedAfterConversion ==
    /\ ret.op = "OFXFile"
    /\ ret.msg = "Parse Error: Unable to parse header"
    /\ Find(ret.arg.text, <<"O","F","X","H","E","A","D","E","R">>) > 0
    /\ ReplaceCRLF(ret.arg.text) # ret.arg.text
    /\ ~is_ofx_response(ret.arg.text)

=============================================================================
